---- MODULE Spec2Model ----
(***************************************************************************)
(* Model of to_uppercase.py: the header-name helpers cap_header and        *)
(* make_header, and replace_header_names, which reads a file, rewrites     *)
(* every header-name literal of every line and writes the file back.       *)
(*                                                                         *)
(* A Python str is a sequence of one-character strings.                    *)
(***************************************************************************)
EXTENDS Integers, Sequences, FiniteSets, TLC

VARIABLES
    file,       \* content of the file at filepath, a sequence of characters
    pc,         \* position of the run of replace_header_names
    at,         \* position at which the run failed or was interrupted
    lines,      \* the list returned by f.readlines()
    updated,    \* the list the loop appends to
    flags,      \* value of the test line != new_line, per processed line
    out,        \* what print() has emitted in this run, one entry per call:
                \* the text, and the index of the line that caused the call
    wbuf,       \* text written to the handle and not yet flushed to the file
    written,    \* how many elements of updated writelines has passed on
    wopened,    \* whether this run has opened the file for writing
    run,        \* which run of the script this is
    orig,       \* content of the file at the start of each run so far
    readable,   \* whether the path can be opened for reading
    writable,   \* whether the path can be opened for writing
    name,       \* argument of make_header
    once,       \* hyphen-join of cap_header over the tokens of name
    twice,      \* the same, computed from once
    header,     \* result of make_header(name)
    step        \* position of the helper evaluation

vars == <<file, pc, at, lines, updated, flags, out, wbuf, written, wopened,
          run, orig, readable, writable, name, once, twice, header, step>>

envVars == <<readable, writable>>

fileVars == <<file, pc, at, lines, updated, flags, out, wbuf, written,
              wopened, run, orig, envVars>>

nameVars == <<name, once, twice, header, step>>

----------------------------------------------------------------------------
(* Characters and the str methods the script uses *)

DQ == "\""
SP == " "
LF == "\n"
CR == "\r"
TAB == "\t"

LowerLetters ==
    <<"a","b","c","d","e","f","g","h","i","j","k","l","m",
      "n","o","p","q","r","s","t","u","v","w","x","y","z">>

UpperLetters ==
    <<"A","B","C","D","E","F","G","H","I","J","K","L","M",
      "N","O","P","Q","R","S","T","U","V","W","X","Y","Z">>

IsLower(c) == \E i \in DOMAIN LowerLetters : LowerLetters[i] = c

IsUpper(c) == \E i \in DOMAIN UpperLetters : UpperLetters[i] = c

IsSpace(c) == c \in {SP, LF, CR, TAB}

char_lower(c) ==
    IF IsUpper(c)
    THEN LowerLetters[CHOOSE i \in DOMAIN UpperLetters : UpperLetters[i] = c]
    ELSE c

char_upper(c) ==
    IF IsLower(c)
    THEN UpperLetters[CHOOSE i \in DOMAIN LowerLetters : LowerLetters[i] = c]
    ELSE c

char_swapcase(c) == IF IsUpper(c) THEN char_lower(c) ELSE char_upper(c)

str_swapcase(s) == [i \in 1..Len(s) |-> char_swapcase(s[i])]

str_lower(s) == [i \in 1..Len(s) |-> char_lower(s[i])]

str_upper(s) == [i \in 1..Len(s) |-> char_upper(s[i])]

str_capitalize(s) ==
    IF s = <<>> THEN <<>>
    ELSE <<char_upper(s[1])>> \o str_lower(Tail(s))

StartsWith(s, i, p) ==
    /\ i + Len(p) - 1 <= Len(s)
    /\ \A k \in 1..Len(p) : s[i + k - 1] = p[k]

RECURSIVE str_split(_, _)
str_split(s, sep) ==
    IF \A i \in 1..Len(s) : s[i] # sep THEN <<s>>
    ELSE LET k == CHOOSE i \in 1..Len(s) :
                      s[i] = sep /\ \A j \in 1..(i-1) : s[j] # sep
         IN  <<SubSeq(s, 1, k-1)>> \o str_split(SubSeq(s, k+1, Len(s)), sep)

RECURSIVE str_split_ws(_)
str_split_ws(s) ==
    IF s = <<>> THEN <<>>
    ELSE IF IsSpace(s[1]) THEN str_split_ws(Tail(s))
    ELSE LET ends == {i \in 1..Len(s) : IsSpace(s[i])}
             k == IF ends = {} THEN Len(s) + 1
                  ELSE CHOOSE i \in ends : \A j \in ends : i <= j
         IN  <<SubSeq(s, 1, k-1)>> \o str_split_ws(SubSeq(s, k, Len(s)))

RECURSIVE str_join(_, _)
str_join(sep, parts) ==
    IF parts = <<>> THEN <<>>
    ELSE IF Len(parts) = 1 THEN parts[1]
    ELSE parts[1] \o sep \o str_join(sep, Tail(parts))

RECURSIVE str_replace(_, _, _)
str_replace(s, old, new) ==
    IF s = <<>> THEN <<>>
    ELSE IF StartsWith(s, 1, old)
         THEN new \o str_replace(SubSeq(s, Len(old) + 1, Len(s)), old, new)
         ELSE <<s[1]>> \o str_replace(Tail(s), old, new)

lstrip(s) ==
    LET keep == {i \in 1..Len(s) : ~IsSpace(s[i])}
    IN  IF keep = {} THEN <<>>
        ELSE SubSeq(s, CHOOSE i \in keep : \A j \in keep : i <= j, Len(s))

rstrip(s) ==
    LET keep == {i \in 1..Len(s) : ~IsSpace(s[i])}
    IN  IF keep = {} THEN <<>>
        ELSE SubSeq(s, 1, CHOOSE i \in keep : \A j \in keep : j <= i)

str_strip(s) == lstrip(rstrip(s))

capwords(s) ==
    LET words == str_split_ws(s)
    IN  str_join(<<SP>>, [i \in 1..Len(words) |-> str_capitalize(words[i])])

----------------------------------------------------------------------------
(* cap_header and make_header *)

cap_header_exact(n) ==
    IF n = <<"w","w","w">> THEN <<"W","W","W">>
    ELSE IF n = <<"e","t","a","g">> THEN <<"E","T","a","g">>
    ELSE capwords(n)

cap_header(n) ==
    IF str_lower(n) = <<"w","w","w">> THEN <<"W","W","W">>
    ELSE IF str_lower(n) = <<"e","t","a","g">> THEN <<"E","T","a","g">>
    ELSE capwords(n)

canonical_name(x) ==
    LET tokens == str_split(x, "-")
    IN  str_join(<<"-">>, [i \in 1..Len(tokens) |-> cap_header(tokens[i])])

make_header_plain(x) ==
    LET new_header == canonical_name(x)
    IN  new_header \o <<DQ, ",", SP, "b", DQ>> \o new_header

make_header(x) ==
    LET new_header == canonical_name(x)
    IN  new_header \o <<DQ, ",", SP, "b", DQ>> \o str_upper(new_header)

----------------------------------------------------------------------------
(* Reading and writing the file in text mode *)

RECURSIVE translate_newlines(_)
translate_newlines(data) ==
    IF data = <<>> THEN <<>>
    ELSE IF data[1] = CR
         THEN IF Len(data) >= 2 /\ data[2] = LF
              THEN <<LF>> \o translate_newlines(SubSeq(data, 3, Len(data)))
              ELSE <<LF>> \o translate_newlines(Tail(data))
         ELSE <<data[1]>> \o translate_newlines(Tail(data))

RECURSIVE split_keepends(_)
split_keepends(text) ==
    IF text = <<>> THEN <<>>
    ELSE LET ends == {i \in 1..Len(text) : text[i] = LF}
         IN  IF ends = {} THEN <<text>>
             ELSE LET k == CHOOSE i \in ends : \A j \in ends : i <= j
                  IN  <<SubSeq(text, 1, k)>>
                          \o split_keepends(SubSeq(text, k + 1, Len(text)))

RECURSIVE splitlines(_)
splitlines(text) ==
    IF text = <<>> THEN <<>>
    ELSE LET ends == {i \in 1..Len(text) : text[i] = LF}
         IN  IF ends = {} THEN <<text>>
             ELSE LET k == CHOOSE i \in ends : \A j \in ends : i <= j
                  IN  <<SubSeq(text, 1, k - 1)>>
                          \o splitlines(SubSeq(text, k + 1, Len(text)))

readlines_noends(data) == splitlines(translate_newlines(data))

readlines(data) == split_keepends(translate_newlines(data))

writelines(ls) == str_join(<<>>, ls)

----------------------------------------------------------------------------
(* header_matcher, upper_header and header_matcher.sub *)

IsNameChar(c) == IsLower(c) \/ IsUpper(c) \/ c = "-"

NameRun(line, i) ==
    LET ok == {r \in 0..(Len(line) - i + 1) :
                  \A k \in 0..(r - 1) : IsNameChar(line[i + k])}
    IN  CHOOSE r \in ok : \A q \in ok : q <= r

\* header_matcher without the closing sequence: b"name alone is a match
header_matcher_open(line, i) ==
    IF StartsWith(line, i, <<"b", DQ>>) /\ NameRun(line, i + 2) >= 1
    THEN LET n == NameRun(line, i + 2)
         IN  <<SubSeq(line, i, i + n + 1), SubSeq(line, i + 2, i + n + 1)>>
    ELSE <<>>

\* the match of header_matcher that starts at position i of line, as
\* <<group(0), group(1)>>, or <<>> when there is none
header_matcher(line, i) ==
    IF ~StartsWith(line, i, <<"b", DQ>>) THEN <<>>
    ELSE LET fits == {n \in 1..NameRun(line, i + 2) :
                         StartsWith(line, i + 2 + n, <<DQ, ")", ";">>)}
         IN  IF fits = {} THEN <<>>
             ELSE LET n == CHOOSE m \in fits : \A q \in fits : q <= m
                  IN  <<SubSeq(line, i, i + n + 4),
                        SubSeq(line, i + 2, i + n + 1)>>

upper_header_swap(group0, group1) ==
    str_replace(group0, group1, str_swapcase(group1))

upper_header_up(group0, group1) ==
    str_replace(group0, group1, str_upper(group1))

upper_header(group0, group1) ==
    str_replace(group0, group1, str_lower(group1))

RECURSIVE sub_from(_, _)
sub_from(line, i) ==
    IF i > Len(line) THEN <<>>
    ELSE LET m == header_matcher(line, i)
         IN  IF m # <<>>
             THEN upper_header(m[1], m[2]) \o sub_from(line, i + Len(m[1]))
             ELSE <<line[i]>> \o sub_from(line, i + 1)

header_sub(line) == sub_from(line, 1)

----------------------------------------------------------------------------
(* Inputs *)

MaxFrags == 3
MaxPieces == 3
MaxRuns == 2

Fragments ==
    { <<"b", DQ>>, <<DQ, ")", ";">>, <<DQ>>, <<"A">>, <<"b">>, <<"-">>,
      <<SP>>, <<LF>>, <<CR>>,
      <<"b", DQ, "A", "b", DQ, ")", ";">>,
      <<"b", DQ, "a", "-", "b", DQ, ")", ";">>,
      <<"b", DQ, "B", DQ, ")", ";">> }

Files ==
    {writelines(fs) : fs \in UNION {[1..n -> Fragments] : n \in 0..MaxFrags}}

NamePieces ==
    { <<"w","w","w">>, <<"W","w","W">>, <<"e","t","a","g">>,
      <<"E","T","A","G">>, <<"E","T","a","g">>, <<"t","a","g">>,
      <<"a">>, <<"A","b">>, <<"x","Y","z">>, <<"e">>, <<"-">> }

Names ==
    {writelines(ps) : ps \in UNION {[1..n -> NamePieces] : n \in 0..MaxPieces}}

----------------------------------------------------------------------------
(* replace_header_names *)

Init ==
    /\ file \in Files
    /\ orig = <<file>>
    /\ readable \in BOOLEAN
    /\ writable \in BOOLEAN
    /\ pc = "open_r"
    /\ at = "none"
    /\ lines = <<>>
    /\ updated = <<>>
    /\ flags = <<>>
    /\ out = <<>>
    /\ wbuf = <<>>
    /\ written = 0
    /\ wopened = FALSE
    /\ run = 1
    /\ name = <<>>
    /\ once = <<>>
    /\ twice = <<>>
    /\ header = <<>>
    /\ step = "idle"

\* with filepath.open("r") as f: lines = f.readlines()
OpenRead ==
    /\ pc = "open_r"
    /\ readable
    /\ lines' = readlines(file)
    /\ pc' = "loop"
    /\ UNCHANGED <<file, at, updated, flags, out, wbuf, written, wopened,
                   run, orig, envVars, nameVars>>

\* the same, but an OSError of open() is swallowed and the run goes on
OpenReadFailCaught ==
    /\ pc = "open_r"
    /\ ~readable
    /\ lines' = <<>>
    /\ pc' = "loop"
    /\ UNCHANGED <<file, at, updated, flags, out, wbuf, written, wopened,
                   run, orig, envVars, nameVars>>

\* filepath.open("r") raises: nothing catches it
OpenReadFail ==
    /\ pc = "open_r"
    /\ ~readable
    /\ pc' = "failed"
    /\ at' = "open_r"
    /\ UNCHANGED <<file, lines, updated, flags, out, wbuf, written, wopened,
                   run, orig, envVars, nameVars>>

\* one iteration of the loop, writing the file as it goes
ProcessLineStreaming ==
    /\ pc = "loop"
    /\ Len(updated) < Len(lines)
    /\ LET line == lines[Len(updated) + 1]
           new_line == header_sub(line)
       IN  /\ flags' = Append(flags, line # new_line)
           /\ out' = IF line # new_line
                     THEN Append(out, [src |-> Len(updated) + 1,
                                       text |-> str_strip(new_line)])
                     ELSE out
           /\ updated' = Append(updated, new_line)
           /\ file' = writelines(Append(updated, new_line))
    /\ UNCHANGED <<pc, at, lines, wbuf, written, wopened, run, orig, envVars, nameVars>>

\* one iteration of the loop, appending the stripped line
ProcessLineStripped ==
    /\ pc = "loop"
    /\ Len(updated) < Len(lines)
    /\ LET line == lines[Len(updated) + 1]
           new_line == header_sub(line)
       IN  /\ flags' = Append(flags, line # new_line)
           /\ out' = IF line # new_line
                     THEN Append(out, [src |-> Len(updated) + 1,
                                       text |-> str_strip(new_line)])
                     ELSE out
           /\ updated' = Append(updated, str_strip(new_line))
    /\ UNCHANGED <<file, pc, at, lines, wbuf, written, wopened, run, orig,
                   envVars, nameVars>>

\* one iteration of the loop, printing with rstrip()
ProcessLineRstrip ==
    /\ pc = "loop"
    /\ Len(updated) < Len(lines)
    /\ LET line == lines[Len(updated) + 1]
           new_line == header_sub(line)
       IN  /\ flags' = Append(flags, line # new_line)
           /\ out' = IF line # new_line
                     THEN Append(out, [src |-> Len(updated) + 1,
                                       text |-> rstrip(new_line)])
                     ELSE out
           /\ updated' = Append(updated, new_line)
    /\ UNCHANGED <<file, pc, at, lines, wbuf, written, wopened, run, orig,
                   envVars, nameVars>>

\* one iteration of: for line in lines
ProcessLine ==
    /\ pc = "loop"
    /\ Len(updated) < Len(lines)
    /\ LET line == lines[Len(updated) + 1]
           new_line == header_sub(line)
       IN  /\ flags' = Append(flags, line # new_line)
           /\ out' = IF line # new_line
                     THEN Append(out, [src |-> Len(updated) + 1,
                                       text |-> str_strip(new_line)])
                     ELSE out
           /\ updated' = Append(updated, new_line)
    /\ UNCHANGED <<file, pc, at, lines, wbuf, written, wopened, run, orig,
                   envVars, nameVars>>

\* filepath.open("w") after the loop: the file is truncated
OpenWrite ==
    /\ pc = "loop"
    /\ Len(updated) = Len(lines)
    /\ writable
    /\ file' = <<>>
    /\ wopened' = TRUE
    /\ pc' = "write"
    /\ UNCHANGED <<at, lines, updated, flags, out, wbuf, written, run, orig,
                   envVars, nameVars>>

\* filepath.open("w") raises: nothing catches it
OpenWriteFail ==
    /\ pc = "loop"
    /\ Len(updated) = Len(lines)
    /\ ~writable
    /\ pc' = "failed"
    /\ at' = "open_w"
    /\ UNCHANGED <<file, lines, updated, flags, out, wbuf, written, wopened,
                   run, orig, envVars, nameVars>>

\* f.writelines(updated) hands the next element to the buffered handle
WriteLine ==
    /\ pc = "write"
    /\ written < Len(updated)
    /\ wbuf' = wbuf \o updated[written + 1]
    /\ written' = written + 1
    /\ UNCHANGED <<file, pc, at, lines, updated, flags, out, wopened, run,
                   orig, envVars, nameVars>>

\* the handle's buffer reaches the file while writelines is running
Flush ==
    /\ pc = "write"
    /\ wbuf # <<>>
    /\ file' = file \o wbuf
    /\ wbuf' = <<>>
    /\ UNCHANGED <<pc, at, lines, updated, flags, out, written, wopened, run,
                   orig, envVars, nameVars>>

\* leaving the with block closes the handle, which flushes it
Close ==
    /\ pc = "write"
    /\ written = Len(updated)
    /\ file' = file \o wbuf
    /\ wbuf' = <<>>
    /\ pc' = "done"
    /\ UNCHANGED <<at, lines, updated, flags, out, written, wopened, run,
                   orig, envVars, nameVars>>

\* the process is interrupted: by an exception, which closes an open handle
\* and so flushes it, or by a kill, which does not
Interrupt ==
    /\ pc \in {"open_r", "loop", "write"}
    /\ pc' = "interrupted"
    /\ at' = pc
    /\ file' \in {file, file \o wbuf}
    /\ wbuf' = <<>>
    /\ UNCHANGED <<lines, updated, flags, out, written, wopened, run, orig,
                   envVars, nameVars>>

\* the script is run again on the file the completed run left
Rerun ==
    /\ pc = "done"
    /\ run < MaxRuns
    /\ run' = run + 1
    /\ orig' = Append(orig, file)
    /\ pc' = "open_r"
    /\ lines' = <<>>
    /\ updated' = <<>>
    /\ flags' = <<>>
    /\ out' = <<>>
    /\ written' = 0
    /\ wopened' = FALSE
    /\ UNCHANGED <<file, at, wbuf, envVars, nameVars>>

Next ==
    \/ OpenRead
    \/ OpenReadFail
    \/ ProcessLine
    \/ OpenWrite
    \/ OpenWriteFail
    \/ WriteLine
    \/ Flush
    \/ Close
    \/ Interrupt
    \/ Rerun

Spec == Init /\ [][Next]_vars

----------------------------------------------------------------------------
(* cap_header and make_header applied to a name *)

InitCanon ==
    /\ name \in Names
    /\ once = <<>>
    /\ twice = <<>>
    /\ header = <<>>
    /\ step = "first"
    /\ file = <<>>
    /\ orig = <<>>
    /\ readable = TRUE
    /\ writable = TRUE
    /\ pc = "idle"
    /\ at = "none"
    /\ lines = <<>>
    /\ updated = <<>>
    /\ flags = <<>>
    /\ out = <<>>
    /\ wbuf = <<>>
    /\ written = 0
    /\ wopened = FALSE
    /\ run = 1

\* "-".join([cap_header(n) for n in name.split("-")])
Canonicalize ==
    /\ step = "first"
    /\ once' = canonical_name(name)
    /\ step' = "second"
    /\ UNCHANGED <<name, twice, header, fileVars>>

\* the same applied to its own result
CanonicalizeAgain ==
    /\ step = "second"
    /\ twice' = canonical_name(once)
    /\ step' = "make"
    /\ UNCHANGED <<name, once, header, fileVars>>

\* make_header(name)
MakeHeader ==
    /\ step = "make"
    /\ header' = make_header(name)
    /\ step' = "made"
    /\ UNCHANGED <<name, once, twice, fileVars>>

NextCanon ==
    \/ Canonicalize
    \/ CanonicalizeAgain
    \/ MakeHeader

SpecCanon == InitCanon /\ [][NextCanon]_vars

----------------------------------------------------------------------------
(* What the properties speak of, stated without the operators above *)

NameAlphabet ==
    {LowerLetters[i] : i \in DOMAIN LowerLetters}
        \cup {UpperLetters[i] : i \in DOMAIN UpperLetters} \cup {"-"}

\* line holds b"<name>"); at position s, <name> being n letters and hyphens
ShapeAt(line, s, n) ==
    /\ n >= 1
    /\ s + n + 4 <= Len(line)
    /\ line[s] = "b"
    /\ line[s + 1] = DQ
    /\ line[s + n + 2] = DQ
    /\ \A k \in (s + 2)..(s + n + 1) : line[k] \in NameAlphabet
    /\ line[s + n + 3] = ")"
    /\ line[s + n + 4] = ";"

Shapes(line) ==
    UNION {{<<s, n>> : n \in {m \in 1..(Len(line) - s - 4) :
                                  ShapeAt(line, s, m)}} :
           s \in {t \in 1..Len(line) : line[t] = "b"}}

HasShape(line) == Shapes(line) # {}

\* the positions of line that lie in the <name> part of a shape
NamePositions(line) ==
    UNION {(sn[1] + 2)..(sn[1] + sn[2] + 1) : sn \in Shapes(line)}

HasUpperName(line) == \E k \in NamePositions(line) : IsUpper(line[k])

Lowered(line) ==
    LET np == NamePositions(line)
    IN  [k \in 1..Len(line) |->
            IF k \in np THEN char_lower(line[k]) ELSE line[k]]

\* the lines a file holds: each ends with its line feed, the last one maybe
\* with the end of the file
LineEnds(f) ==
    {k \in 1..Len(f) : f[k] = LF \/ k = Len(f)}

NthLine(f, i) ==
    LET ends == LineEnds(f)
        rank(e) == Cardinality({x \in ends : x <= e})
        last == CHOOSE e \in ends : rank(e) = i
        first == IF i = 1 THEN 1
                 ELSE 1 + CHOOSE e \in ends : rank(e) = i - 1
    IN  SubSeq(f, first, last)

\* t is s without the white space around it
IsTrimOf(t, s) ==
    \E a \in 1..(Len(s) + 1) : \E b \in 0..Len(s) :
        /\ t = SubSeq(s, a, b)
        /\ \A k \in 1..(a - 1) : IsSpace(s[k])
        /\ \A k \in (b + 1)..Len(s) : IsSpace(s[k])
        /\ t # <<>> => ~IsSpace(t[1]) /\ ~IsSpace(t[Len(t)])

Altered(i) == updated[i] # lines[i]

EmittedFor(i) == {k \in 1..Len(out) : out[k].src = i}

----------------------------------------------------------------------------
(* Properties of replace_header_names *)

\* C1: when replace_header_names has completed, the file holds as many
\* lines as were read, and its i-th line is header_matcher.sub applied to
\* the i-th line read: nothing is added, dropped, duplicated or reordered.
C1_LinesPreserved ==
    pc = "done" =>
        /\ Cardinality(LineEnds(file)) = Len(lines)
        /\ \A i \in 1..Len(lines) : NthLine(file, i) = header_sub(lines[i])

C1_Witness ==
    /\ pc = "done"
    /\ Len(lines) >= 2
    /\ lines[1] # lines[2]
    /\ \E i \in 1..Len(lines) : Altered(i)

\* C2: the processed line is the line with the <name> part of every
\* b"<name>"); lower-cased and every other character kept, the b" and the
\* "); of a match and a literal that no "); follows included.
C2_OnlyNamesLowered ==
    \A i \in 1..Len(updated) : updated[i] = Lowered(lines[i])

C2_Witness ==
    \E i \in 1..Len(updated) :
        /\ Altered(i)
        /\ \E k \in 1..Len(lines[i]) :
              IsUpper(lines[i][k]) /\ k \notin NamePositions(lines[i])

\* C3: a line that holds no b"<name>"); is returned unchanged, reports no
\* change, is not printed, and is written back as it was read.
C3_NoMatchUnchanged ==
    \A i \in 1..Len(updated) :
        ~HasShape(lines[i]) =>
            /\ updated[i] = lines[i]
            /\ ~flags[i]
            /\ EmittedFor(i) = {}
            /\ pc = "done" => NthLine(file, i) = lines[i]

C3_Witness ==
    /\ pc = "done"
    /\ \E i \in 1..Len(updated) :
          /\ ~HasShape(lines[i])
          /\ \E k \in 1..Len(lines[i]) :
                StartsWith(lines[i], k, <<"b", DQ, "A">>)

\* C4: a run on the file that a completed run produced writes back the
\* lines it read and prints nothing: the file is left as that run found it.
C4_SecondRunFixedPoint ==
    run >= 2 =>
        /\ out = <<>>
        /\ \A i \in 1..Len(updated) : updated[i] = lines[i]
        /\ pc = "done" => file = orig[run]

C4_Witness ==
    /\ run = 2
    /\ pc = "done"
    /\ orig[1] # orig[2]
    /\ \E i \in 1..Len(lines) : HasShape(lines[i])

\* C7 as claimed: the test line != new_line is true exactly when the line
\* holds at least one b"<name>");.
C7_FlagIffMatch ==
    \A i \in 1..Len(flags) : flags[i] <=> HasShape(lines[i])

\* C7 as amended: the test line != new_line is true exactly when the line
\* holds at least one b"<name>"); whose <name> has an upper-case letter,
\* which is exactly when the processed line differs from the line.
C7_FlagIffUpperName ==
    \A i \in 1..Len(flags) :
        /\ flags[i] <=> HasUpperName(lines[i])
        /\ flags[i] <=> Altered(i)

C7_Witness ==
    \E i, j \in 1..Len(flags) :
        /\ flags[i]
        /\ HasShape(lines[j])
        /\ ~flags[j]

\* C8: every processed line that differs from its original has been printed
\* exactly once, as the processed line without the white space around it;
\* the prints are in file order; a line that was not altered is not printed.
C8_AlteredPrintedOnce ==
    /\ \A i \in 1..Len(updated) :
          /\ Cardinality(EmittedFor(i)) = IF Altered(i) THEN 1 ELSE 0
          /\ \A k \in EmittedFor(i) : IsTrimOf(out[k].text, updated[i])
    /\ \A k \in 1..Len(out) : out[k].src \in 1..Len(updated)
    /\ \A k, l \in 1..Len(out) : k < l => out[k].src < out[l].src
    /\ Len(out) = Cardinality({i \in 1..Len(updated) : Altered(i)})

C8_Witness ==
    \E k \in 1..Len(out) :
        LET new_line == updated[out[k].src]
        IN  /\ IsSpace(new_line[1])
            /\ IsSpace(new_line[Len(new_line)])
            /\ Len(out[k].text) + 2 <= Len(new_line)

\* C9: the file changes only once every line has been read and processed
\* and the file has been opened for writing, and a run interrupted between
\* the read and the write leaves the original content (or the fully
\* modified one), never a mix.
C9_WriteAfterRead ==
    /\ [][file' # file =>
            /\ pc \in {"loop", "write"}
            /\ lines = readlines(orig[run])
            /\ Len(updated) = Len(lines)
            /\ wopened']_vars
    /\ [](pc = "interrupted" /\ at = "loop" =>
            \/ file = orig[run]
            \/ file = writelines([i \in 1..Len(lines) |->
                                     Lowered(lines[i])]))

C9_Witness ==
    /\ pc = "interrupted"
    /\ at = "loop"
    /\ Len(updated) < Len(lines)
    /\ \E i \in 1..Len(updated) : Altered(i)

\* C10: when the path cannot be opened for reading the run ends in the
\* error with no line read or processed, nothing printed and the file never
\* opened for writing; when it cannot be opened for writing the run ends in
\* the error and the file stays as it was read; nothing runs after the error.
C10_AccessFailureAborts ==
    /\ ~readable =>
          /\ pc \in {"open_r", "failed", "interrupted"}
          /\ lines = <<>> /\ updated = <<>> /\ out = <<>>
          /\ ~wopened
          /\ file = orig[run]
    /\ ~writable => ~wopened /\ file = orig[run]
    /\ pc = "failed" =>
          /\ ~ENABLED Next
          /\ at = "open_r" => ~readable
          /\ at = "open_w" => ~writable /\ Len(updated) = Len(lines)

C10_Witness ==
    /\ pc = "failed"
    /\ at = "open_w"
    /\ \E i \in 1..Len(updated) : Altered(i)

----------------------------------------------------------------------------
(* Properties of cap_header and make_header *)

Www == <<"w", "w", "w">>

Etag == <<"e", "t", "a", "g">>

\* the token of x, between hyphens, that position i lies in
TokenFirst(x, i) ==
    CHOOSE s \in 1..i :
        /\ \A k \in s..i : x[k] # "-"
        /\ s = 1 \/ x[s - 1] = "-"

TokenLast(x, i) ==
    CHOOSE e \in i..Len(x) :
        /\ \A k \in i..e : x[k] # "-"
        /\ e = Len(x) \/ x[e + 1] = "-"

CanonChar(x, i) ==
    IF x[i] = "-" THEN "-"
    ELSE LET s == TokenFirst(x, i)
             token == str_lower(SubSeq(x, s, TokenLast(x, i)))
         IN  IF token = Www THEN "W"
             ELSE IF token = Etag THEN <<"E", "T", "a", "g">>[i - s + 1]
             ELSE IF i = s THEN char_upper(x[i])
             ELSE char_lower(x[i])

Canonical(x) == [i \in 1..Len(x) |-> CanonChar(x, i)]

\* C5: canonicalizing the canonical form of a name of letters and hyphens
\* gives the canonical form again, empty tokens included.
C5_CanonicalizeIdempotent ==
    step \in {"make", "made"} => twice = once

C5_Witness ==
    /\ step = "made"
    /\ name # <<>>
    /\ name[1] = "-"
    /\ name[Len(name)] = "-"
    /\ once # name

\* C6: make_header(name) is the canonical name C, then the separator
\* ", b" and then C upper-cased, where C has the hyphens of name where name
\* has them and each token as WWW, ETag or first letter upper, rest lower.
C6_MakeHeader ==
    step = "made" =>
        LET C == Canonical(name)
        IN  header = C \o <<DQ, ",", SP, "b", DQ>>
                       \o [i \in 1..Len(C) |-> char_upper(C[i])]

C6_Witness ==
    /\ step = "made"
    /\ str_lower(name) = Www \o <<"-">> \o Etag
    /\ name # str_lower(name)

====
